---- MODULE Spec2Model ----
(***************************************************************************)
(* A model of qcvz: the QuantumCircuit container (quantum_circuit.py) and  *)
(* the level scheduler QuantumCircuitVisualizer.schedule_gates              *)
(* (visualization.py).                                                      *)
(*                                                                         *)
(* Gate dictionaries are records whose DOMAIN is the set of keys present,   *)
(* so `"ctrl" in gate` is "ctrl" \in DOMAIN gate.  Dictionaries are heap    *)
(* objects: a circuit's gate list is a sequence of object ids into `heap`,  *)
(* so that sharing one dictionary between two lists is expressible.         *)
(***************************************************************************)
EXTENDS Integers, Sequences, FiniteSets, TLC

VARIABLES circ,   \* circuit variable -> [n_qubits, n_classical_bits, gates]
          heap,   \* object id -> gate dictionary (the live dictionaries)
          last,   \* the last call, when it was append or add_gate or it raised
          sched   \* the result of the last schedule_gates call

vars == <<circ, heap, last, sched>>

----------------------------------------------------------------------------
(* Bounds of the model. *)

\* The circuit-construction specification Spec.
MaxQubits == 2      \* request_qubit / append stop at this many qubits
MaxCBits  == 1      \* request_classical_bit / append stop at this many bits
MaxArg    == 0      \* qubit operands handed to the add_* helpers: 0..MaxArg
MaxAdded  == 2      \* add_* / add_gate / extend stop at this many live gates
MaxObj    == 3      \* live gate dictionaries and list cells (the memory)

\* The scheduler specification SchedSpec.
SMaxQubits == 3     \* qubits of a scheduled circuit, and its qubit operands
SMaxCBits  == 1     \* classical bits of a scheduled circuit
SMaxLen    == 3     \* operations in a scheduled circuit

\* Bounds of the allocation driver.
AMaxQubits == 3     \* qubits of a circuit
AMaxCBits  == 2     \* classical bits of a circuit
AMaxN      == 2     \* the n of request_qubits(n) / request_classical_bits(n)
AMaxGates  == 1     \* gate dictionaries the add_* helpers store

----------------------------------------------------------------------------
(* The two circuit variables of the driver program, and arguments that are  *)
(* not QuantumCircuit instances.                                            *)
Circs == {"a", "b"}
NonCircuits == {"list"}

\* class GateType
GateType == {"CNOT", "CZ", "Tof", "HAD", "S", "T", "Tdg", "X", "Z", "CCZ",
             "MEASURE", "CONDITIONAL"}

\* QuantumCircuit.__init__
NewCircuit == [n_qubits |-> 0, n_classical_bits |-> 0, gates |-> <<>>]

NoArg == [none |-> TRUE]
\* The last call returned normally and was neither append nor add_gate (or
\* nothing was called yet).
Returned == [op |-> "", self |-> "", other |-> "", res |-> "ok", arg |-> NoArg]
Unset == [set |-> FALSE, remove_overlap |-> FALSE, err |-> "", gate_loc |-> <<>>]

Max(S) == CHOOSE m \in S : \A x \in S : x <= m
Min(S) == CHOOSE m \in S : \A x \in S : m <= x

\* The dictionaries of a circuit's gate list, in order, by value.
Gates(cs, h, c) == [i \in 1..Len(cs[c].gates) |-> h[cs[c].gates[i]]]

\* Circuit c as a value: its counts and its gate dictionaries.
CircuitOf(cs, h, c) == [n_qubits |-> cs[c].n_qubits,
                        n_classical_bits |-> cs[c].n_classical_bits,
                        gates |-> Gates(cs, h, c)]

----------------------------------------------------------------------------
(* Heap normalisation: object ids carry no meaning, so after every call the *)
(* live dictionaries (those a circuit's list refers to) are renumbered in   *)
(* the order the lists mention them and everything else is collected.       *)
RECURSIVE Distinct(_, _)
Distinct(s, acc) ==
    IF s = <<>> THEN acc
    ELSE Distinct(Tail(s),
                  IF \E k \in 1..Len(acc) : acc[k] = Head(s)
                  THEN acc ELSE Append(acc, Head(s)))

Rank(order, id) == CHOOSE k \in 1..Len(order) : order[k] = id

Canon(cs, h) ==
    LET order == Distinct(cs["a"].gates \o cs["b"].gates, <<>>)
    IN [circ |-> [c \in Circs |->
                   [cs[c] EXCEPT !.gates =
                       [i \in 1..Len(cs[c].gates) |-> Rank(order, cs[c].gates[i])]]],
        heap |-> [k \in 1..Len(order) |-> h[order[k]]]]

\* The driver program: an exception no one catches ends it.
Running == last.res = "ok"

\* A call and its end: the circuits and the heap as it leaves them, and in
\* `last` the call when it raised or was append or add_gate.
Commit(cs, h, call) ==
    /\ Running
    /\ circ' = Canon(cs, h).circ
    /\ heap' = Canon(cs, h).heap
    /\ last' = IF call.res = "ok" /\ call.op \notin {"append", "add_gate"}
               THEN Returned ELSE call
    /\ UNCHANGED sched

Call(op, c, other, res, arg) ==
    [op |-> op, self |-> c, other |-> other, res |-> res, arg |-> arg]

----------------------------------------------------------------------------
(* Allocation helpers. *)

\* request_qubit: self.n_qubits += 1; return self.n_qubits - 1
request_qubit(c) ==
    Commit([circ EXCEPT ![c].n_qubits = @ + 1], heap,
           Call("request_qubit", c, c, "ok", NoArg))

\* request_classical_bit: self.n_classical_bits += 1; return it - 1
request_classical_bit(c) ==
    Commit([circ EXCEPT ![c].n_classical_bits = @ + 1], heap,
           Call("request_classical_bit", c, c, "ok", NoArg))

\* A call that returns a value: `last` keeps the call and what it returned.
CommitReturning(cs, h, call) ==
    /\ Running
    /\ circ' = Canon(cs, h).circ
    /\ heap' = Canon(cs, h).heap
    /\ last' = call
    /\ UNCHANGED sched

\* The index request_qubit returns: self.n_qubits - 1, after the increment.
QubitIndex(n_qubits) == n_qubits - 1

\* [self.request_qubit() for _ in range(n)]: the circuit after n calls and
\* the list of what they returned.
RECURSIVE RequestQubitsLoop(_, _, _, _)
RequestQubitsLoop(cs, c, n, ret) ==
    IF n = 0 THEN [circ |-> cs, ret |-> ret]
    ELSE LET cs1 == [cs EXCEPT ![c].n_qubits = @ + 1]
         IN RequestQubitsLoop(cs1, c, n - 1,
                              Append(ret, QubitIndex(cs1[c].n_qubits)))

\* [self.request_classical_bit() for _ in range(n)]
RECURSIVE RequestClassicalBitsLoop(_, _, _, _)
RequestClassicalBitsLoop(cs, c, n, ret) ==
    IF n = 0 THEN [circ |-> cs, ret |-> ret]
    ELSE LET cs1 == [cs EXCEPT ![c].n_classical_bits = @ + 1]
         IN RequestClassicalBitsLoop(cs1, c, n - 1,
                                     Append(ret, cs1[c].n_classical_bits - 1))

\* request_qubit, with its return value kept.
RequestQubit(c) ==
    LET r == RequestQubitsLoop(circ, c, 1, <<>>)
    IN CommitReturning(r.circ, heap,
                       Call("request_qubit", c, c, "ok", [n |-> 1, ret |-> r.ret]))

\* request_qubits(n)
request_qubits(c, n) ==
    LET r == RequestQubitsLoop(circ, c, n, <<>>)
    IN CommitReturning(r.circ, heap,
                       Call("request_qubits", c, c, "ok", [n |-> n, ret |-> r.ret]))

\* request_classical_bit, with its return value kept.
RequestClassicalBit(c) ==
    LET r == RequestClassicalBitsLoop(circ, c, 1, <<>>)
    IN CommitReturning(r.circ, heap,
                       Call("request_classical_bit", c, c, "ok",
                            [n |-> 1, ret |-> r.ret]))

\* request_classical_bits(n)
request_classical_bits(c, n) ==
    LET r == RequestClassicalBitsLoop(circ, c, n, <<>>)
    IN CommitReturning(r.circ, heap,
                       Call("request_classical_bits", c, c, "ok",
                            [n |-> n, ret |-> r.ret]))

----------------------------------------------------------------------------
(* Gate insertion. *)

\* dict.copy(): a new object with the same items.
DictCopy_Alias(h, id) == [heap |-> h, id |-> id]
DictCopy(h, id) == [heap |-> Append(h, h[id]), id |-> Len(h) + 1]

\* list.append(x)
ListAppend_Front(gates, id) == <<id>> \o gates
ListAppend(gates, id) == Append(gates, id)

\* self.gates.append({...}) of the add_* helpers: a new dictionary, stored.
HelperAdd(op, c, d) ==
    LET h1 == Append(heap, d)
    IN Commit([circ EXCEPT ![c].gates = ListAppend(@, Len(h1))], h1,
              Call(op, c, c, "ok", NoArg))

add_cnot(c, ctrl, target) ==
    HelperAdd("add_cnot", c, [type |-> "CNOT", ctrl |-> ctrl, target |-> target])
add_cz(c, ctrl, target) ==
    HelperAdd("add_cz", c, [type |-> "CZ", ctrl |-> ctrl, target |-> target])
add_z(c, target) == HelperAdd("add_z", c, [type |-> "Z", target |-> target])
add_x(c, target) == HelperAdd("add_x", c, [type |-> "X", target |-> target])
add_h(c, target) == HelperAdd("add_h", c, [type |-> "HAD", target |-> target])
add_s(c, target) == HelperAdd("add_s", c, [type |-> "S", target |-> target])
add_t(c, target) == HelperAdd("add_t", c, [type |-> "T", target |-> target])
add_tdg(c, target) == HelperAdd("add_tdg", c, [type |-> "Tdg", target |-> target])
add_toffoli(c, c1, c2, target) ==
    HelperAdd("add_toffoli", c,
              [type |-> "Tof", ctrl1 |-> c1, ctrl2 |-> c2, target |-> target])
add_measure(c, qubit, classical_bit) ==
    HelperAdd("add_measure", c,
              [type |-> "MEASURE", qubit |-> qubit, classical_bit |-> classical_bit])
add_conditional_x(c, classical_bit, target) ==
    HelperAdd("add_conditional_x", c,
              [type |-> "CONDITIONAL", classical_bit |-> classical_bit,
               target |-> target, gate |-> "X"])
add_conditional_z(c, classical_bit, target) ==
    HelperAdd("add_conditional_z", c,
              [type |-> "CONDITIONAL", classical_bit |-> classical_bit,
               target |-> target, gate |-> "Z"])
add_conditional_h(c, classical_bit, target) ==
    HelperAdd("add_conditional_h", c,
              [type |-> "CONDITIONAL", classical_bit |-> classical_bit,
               target |-> target, gate |-> "HAD"])
add_conditional_cnot(c, classical_bit, ctrl, target) ==
    HelperAdd("add_conditional_cnot", c,
              [type |-> "CONDITIONAL", classical_bit |-> classical_bit,
               ctrl |-> ctrl, target |-> target, gate |-> "CNOT"])

----------------------------------------------------------------------------
(* add_gate and extend. *)

\* add_gate(gate), gate being heap object gid.
add_gate(cs, h, c, gid) ==
    IF "type" \notin DOMAIN h[gid]
    THEN [circ |-> cs, heap |-> h, res |-> "ValueError"]
    ELSE LET cp == DictCopy(h, gid)
         IN [circ |-> [cs EXCEPT ![c].gates = ListAppend(@, cp.id)],
             heap |-> cp.heap, res |-> "ok"]

\* The call c.add_gate(g) on a dictionary g the caller has just built with
\* the items d, followed by the caller overwriting an item of its own g.
AddGate(c, d) ==
    LET h1 == Append(heap, d)
        g  == Len(h1)
        r  == add_gate(circ, h1, c, g)
        h2 == [r.heap EXCEPT ![g] = IF "type" \in DOMAIN @
                                     THEN [@ EXCEPT !.type = "CCZ"] ELSE @]
    IN Commit(r.circ, h2, Call("add_gate", c, c, r.res, d))

\* extend(gates): for gate in gates: self.add_gate(gate)
RECURSIVE extend(_, _, _, _)
extend(cs, h, c, ids) ==
    IF ids = <<>> THEN [circ |-> cs, heap |-> h, res |-> "ok"]
    ELSE LET r == add_gate(cs, h, c, Head(ids))
         IN IF r.res # "ok" THEN r
            ELSE extend(r.circ, r.heap, c, Tail(ids))

\* The call c.extend(lst) on a list of dictionaries the caller has just built.
Extend(c, lst) ==
    LET h1  == heap \o lst
        ids == [i \in 1..Len(lst) |-> Len(heap) + i]
        r   == extend(circ, h1, c, ids)
    IN Commit(r.circ, r.heap, Call("extend", c, c, r.res, NoArg))

----------------------------------------------------------------------------
(* Circuit composition: append(other). *)

\* isinstance(other, QuantumCircuit)
IsQuantumCircuit(other) == other \in Circs

\* What append does with an argument that is no QuantumCircuit (line 55-56).
NotACircuit_AttributeError == "AttributeError"
NotACircuit == "TypeError"

\* The keys lines 65-81 read with gate[...] / adjusted[...] for this gate.
KeysRead(gate) ==
    IF "type" \notin DOMAIN gate THEN {"type"}
    ELSE CASE gate.type = "MEASURE"        -> {"classical_bit", "qubit"}
           [] gate.type = "CONDITIONAL"    -> {"classical_bit", "target"}
           [] gate.type \in {"CNOT", "CZ"} -> {"ctrl", "target"}
           [] gate.type = "Tof"            -> {"ctrl1", "ctrl2", "target"}
           [] OTHER                        -> {}

\* Lines 65-81 raise KeyError for this gate.
AdjustRaises(gate) == ~(KeysRead(gate) \subseteq DOMAIN gate)

Shift(gate, keys, off) ==
    [k \in DOMAIN gate |-> IF k \in keys THEN gate[k] + off ELSE gate[k]]

\* Lines 65-81: the items of `adjusted` for a gate that raises no KeyError.
AdjustGate_TargetOnly(gate, qubit_offset, classical_offset) ==
    Shift(Shift(gate, {"classical_bit"}, classical_offset), {"target"},
          qubit_offset)
AdjustGate(gate, qubit_offset, classical_offset) ==
    CASE gate.type = "MEASURE" ->
           Shift(Shift(gate, {"classical_bit"}, classical_offset),
                 {"qubit"}, qubit_offset)
      [] gate.type = "CONDITIONAL" ->
           Shift(Shift(gate, {"classical_bit"}, classical_offset),
                 {"target"} \cup ({"ctrl"} \cap DOMAIN gate), qubit_offset)
      [] gate.type \in {"CNOT", "CZ"} ->
           Shift(gate, {"ctrl", "target"}, qubit_offset)
      [] gate.type = "Tof" ->
           Shift(gate, {"ctrl1", "ctrl2", "target"}, qubit_offset)
      [] OTHER ->
           Shift(gate, {"target"} \cap DOMAIN gate, qubit_offset)

\* Lines 63-82: the loop `for gate in other.gates`, at index i of the list
\* other.gates as it is now (the receiver's own list when other is self).
\* A loop that never ends stops here when the memory is full.
RECURSIVE AppendLoop(_, _, _, _, _, _, _)
AppendLoop(cs, h, c, other, i, qubit_offset, classical_offset) ==
    IF i > Len(cs[other].gates)
    THEN [circ |-> cs, heap |-> h, res |-> "ok"]
    ELSE LET gid == cs[other].gates[i]
         IN IF AdjustRaises(h[gid])
            THEN [circ |-> cs, heap |-> h, res |-> "KeyError"]
            ELSE IF Len(h) >= MaxObj \/ Len(cs[c].gates) >= MaxObj
            THEN [circ |-> cs, heap |-> h, res |-> "MemoryError"]
            ELSE LET cp == DictCopy(h, gid)
                     h2 == [cp.heap EXCEPT ![cp.id] =
                               AdjustGate(@, qubit_offset, classical_offset)]
                 IN AppendLoop([cs EXCEPT ![c].gates = ListAppend(@, cp.id)],
                               h2, c, other, i + 1,
                               qubit_offset, classical_offset)

\* append(other), lines 54-82.
append(cs, h, c, other) ==
    IF ~IsQuantumCircuit(other)
    THEN [circ |-> cs, heap |-> h, res |-> NotACircuit]
    ELSE LET classical_offset == cs[c].n_classical_bits
             qubit_offset == cs[c].n_qubits
             cs1 == [cs EXCEPT
                       ![c].n_qubits =
                           Max({cs[c].n_qubits, cs[other].n_qubits + qubit_offset}),
                       ![c].n_classical_bits = @ + cs[other].n_classical_bits]
         IN AppendLoop(cs1, h, c, other, 1, qubit_offset, classical_offset)

\* The loop of c.append(other) never ends: other is c, the list is not empty
\* and no gate of it raises.
Diverges(c, other) ==
    /\ other = c
    /\ circ[c].gates # <<>>
    /\ \A i \in 1..Len(circ[c].gates) : ~AdjustRaises(heap[circ[c].gates[i]])

AppendCircuit(c, other) ==
    LET r == append(circ, heap, c, other)
    IN Commit(r.circ, r.heap, Call("append", c, other, r.res, NoArg))

----------------------------------------------------------------------------
(* copy(), and the caller's own writes to a stored dictionary. *)

\* new_circuit.gates = [gate.copy() for gate in self.gates], from index i on.
RECURSIVE CopyGates(_, _, _, _)
CopyGates(h, gates, i, acc) ==
    IF i > Len(gates) THEN [heap |-> h, gates |-> acc]
    ELSE LET cp == DictCopy(h, gates[i])
         IN CopyGates(cp.heap, gates, i + 1, Append(acc, cp.id))

\* copy(), lines 88-93: the new circuit and the heap holding its gates.
copy(cs, h, src) ==
    LET g == CopyGates(h, cs[src].gates, 1, <<>>)
    IN [new_circuit |-> [n_qubits |-> cs[src].n_qubits,
                         n_classical_bits |-> cs[src].n_classical_bits,
                         gates |-> g.gates],
        heap |-> g.heap]

\* dst = src.copy()
Copy(dst, src) ==
    LET r == copy(circ, heap, src)
    IN Commit([circ EXCEPT ![dst] = r.new_circuit], r.heap,
              Call("copy", dst, src, "ok", NoArg))

\* c.gates[i][key] = v, by the caller, on a key the dictionary has.
MutateGate(c, i, key, v) ==
    Commit(circ, [heap EXCEPT ![circ[c].gates[i]][key] = v],
           Call("mutate_gate", c, c, "ok", NoArg))

----------------------------------------------------------------------------
(* Dependencies and the level scheduler. *)

\* The keys deps_of subscripts: a missing one raises KeyError.
DepsKeys(gate) ==
    IF "type" \notin DOMAIN gate THEN {"type"}
    ELSE CASE gate.type \in {"CNOT", "CZ"} -> {"ctrl", "target"}
           [] gate.type = "Tof" -> {"ctrl1", "ctrl2", "target"}
           [] gate.type = "MEASURE" -> {"qubit"}
           [] gate.type = "CONDITIONAL" -> {"target"}
           [] OTHER -> {}

\* QuantumCircuit.deps_of(gate), for a gate that has the keys it reads.
deps_of(gate) ==
    CASE gate.type \in {"CNOT", "CZ"} -> {gate.ctrl, gate.target}
      [] gate.type = "Tof" -> {gate.ctrl1, gate.ctrl2, gate.target}
      [] gate.type = "MEASURE" -> {gate.qubit}
      [] gate.type = "CONDITIONAL" -> {gate.target}
      [] OTHER -> IF "target" \in DOMAIN gate THEN {gate.target} ELSE {}

\* deps.add(circuit.n_qubits + int(gate["classical_bit"])) for MEASURE and
\* for CONDITIONAL, when the key is there.
WithClassical(deps, gate, n_qubits) ==
    IF gate.type \in {"MEASURE", "CONDITIONAL"} /\ "classical_bit" \in DOMAIN gate
    THEN deps \cup {n_qubits + gate.classical_bit}
    ELSE deps

\* deps.update(range(min_idx, max_idx + 1)) over a non-empty sub-list.
Range(sub) == IF sub = {} THEN {} ELSE Min(sub)..Max(sub)

\* if remove_overlap: the qubit wires, then the classical wires, each
\* widened to its own contiguous range.
Widen(deps, n_qubits) ==
    LET quantum_deps == {d \in deps : d < n_qubits}
        deps1 == deps \cup Range(quantum_deps)
        classical_deps == {d \in deps1 : d >= n_qubits}
    IN deps1 \cup Range(classical_deps)

\* The wire set schedule_gates works with for one gate.
SchedDeps(gate, n_qubits, remove_overlap) ==
    LET deps == WithClassical(deps_of(gate), gate, n_qubits)
    IN IF remove_overlap THEN Widen(deps, n_qubits) ELSE deps

\* max_level = 1 + max([level[d] for d in deps], default=-1); wire d is
\* level[d + 1] here.
MaxLevel_NoStep(level, deps) == Max({level[d + 1] : d \in deps} \cup {-1})
MaxLevel_DefaultZero(level, deps) == 1 + Max({level[d + 1] : d \in deps} \cup {0})
MaxLevel(level, deps) == 1 + Max({level[d + 1] : d \in deps} \cup {-1})

\* The loop of schedule_gates from gate i on: the map built so far grows by
\* one level per gate, or the subscript of a missing key or of a wire the
\* level list does not have ends the call.
RECURSIVE ScheduleLoop(_, _, _, _, _, _)
ScheduleLoop(gates, n_qubits, remove_overlap, i, level, gate_loc) ==
    IF i > Len(gates) THEN [err |-> "", gate_loc |-> gate_loc]
    ELSE IF ~(DepsKeys(gates[i]) \subseteq DOMAIN gates[i])
         THEN [err |-> "KeyError", gate_loc |-> <<>>]
    ELSE LET deps == SchedDeps(gates[i], n_qubits, remove_overlap)
         IN IF \E d \in deps : d >= Len(level)
            THEN [err |-> "IndexError", gate_loc |-> <<>>]
            ELSE LET max_level == MaxLevel(level, deps)
                 IN ScheduleLoop(gates, n_qubits, remove_overlap, i + 1,
                                 [w \in 1..Len(level) |->
                                     IF (w - 1) \in deps THEN max_level
                                     ELSE level[w]],
                                 Append(gate_loc, max_level))

\* schedule_gates(circuit, remove_overlap): gate i of the circuit is entry
\* i + 1 of gate_loc.
schedule_gates_FromZero(circuit, remove_overlap) ==
    LET total_bits == circuit.n_qubits + circuit.n_classical_bits
    IN ScheduleLoop(circuit.gates, circuit.n_qubits, remove_overlap, 1,
                    [w \in 1..total_bits |-> 0], <<>>)
schedule_gates(circuit, remove_overlap) ==
    LET total_bits == circuit.n_qubits + circuit.n_classical_bits
    IN ScheduleLoop(circuit.gates, circuit.n_qubits, remove_overlap, 1,
                    [w \in 1..total_bits |-> -1], <<>>)

\* The call, on circuit variable c; the circuit is only read.
Schedule(c, remove_overlap) ==
    LET r == schedule_gates(CircuitOf(circ, heap, c), remove_overlap)
    IN /\ Running
       /\ sched' = [set |-> TRUE, remove_overlap |-> remove_overlap,
                    err |-> r.err, gate_loc |-> r.gate_loc]
       /\ UNCHANGED <<circ, heap, last>>

\* The wires under what _draw_gates draws for a gate: y is monotone in the
\* wire index, so a line between two wires crosses the wires between them.
DrawnSpan(gate, n_qubits) ==
    CASE gate.type \in {"CNOT", "CZ"} -> Range({gate.ctrl, gate.target})
      [] gate.type = "Tof" -> Range({gate.ctrl1, gate.ctrl2, gate.target})
      [] gate.type = "MEASURE" ->
            Range({gate.qubit, n_qubits + gate.classical_bit})
      [] gate.type = "CONDITIONAL" ->
            IF "classical_bit" \in DOMAIN gate
            THEN Range({gate.target, n_qubits + gate.classical_bit})
            ELSE {gate.target}
      [] gate.type \in {"T", "Tdg", "X", "S", "HAD", "Z"} -> {gate.target}
      [] OTHER -> IF "target" \in DOMAIN gate THEN {gate.target} ELSE {0}

----------------------------------------------------------------------------
Init ==
    /\ circ = [c \in Circs |-> NewCircuit]
    /\ heap = <<>>
    /\ last = Returned
    /\ sched = Unset

QArgs == 0..MaxArg
CArgs == 0..(MaxCBits - 1)
OperandKeys == {"ctrl", "ctrl1", "ctrl2", "target", "qubit", "classical_bit"}

\* The dictionaries handed to add_gate and extend: complete ones, and ones
\* that lack a key their kind needs.
DictPool ==
    UNION {{[type |-> "CNOT", ctrl |-> q, target |-> q],
            [type |-> "HAD", target |-> q],
            [type |-> "CNOT", target |-> q],
            [type |-> "MEASURE", qubit |-> q],
            [type |-> "HAD"],
            [target |-> q]} : q \in QArgs}
ExtendInputs == {<<>>} \cup {<<d>> : d \in DictPool}
                       \cup {<<d, e>> : d \in DictPool, e \in DictPool}

Room(n) == Len(heap) + n <= MaxAdded

\* The outcome of c.append(other) is one the bounds can hold.
AppendFits(c, other) ==
    /\ IsQuantumCircuit(other) =>
          /\ circ[c].n_qubits + circ[other].n_qubits <= MaxQubits
          /\ circ[c].n_classical_bits + circ[other].n_classical_bits <= MaxCBits
    /\ append(circ, heap, c, other).res = "MemoryError" => Diverges(c, other)

\* The calls of the driver on circuit variable c, by kind.
Allocs(c) ==
    \/ circ[c].n_qubits < MaxQubits /\ request_qubit(c)
    \/ circ[c].n_classical_bits < MaxCBits /\ request_classical_bit(c)

Adds(c) ==
    \/ Room(1) /\ \E q1, q2 \in QArgs : add_cnot(c, q1, q2)
    \/ Room(1) /\ \E q1, q2 \in QArgs : add_cz(c, q1, q2)
    \/ Room(1) /\ \E q \in QArgs : add_z(c, q)
    \/ Room(1) /\ \E q \in QArgs : add_x(c, q)
    \/ Room(1) /\ \E q \in QArgs : add_h(c, q)
    \/ Room(1) /\ \E q \in QArgs : add_s(c, q)
    \/ Room(1) /\ \E q \in QArgs : add_t(c, q)
    \/ Room(1) /\ \E q \in QArgs : add_tdg(c, q)
    \/ Room(1) /\ \E q1, q2, q3 \in QArgs : add_toffoli(c, q1, q2, q3)
    \/ Room(1) /\ \E q \in QArgs, b \in CArgs : add_measure(c, q, b)
    \/ Room(1) /\ \E q \in QArgs, b \in CArgs : add_conditional_x(c, b, q)
    \/ Room(1) /\ \E q \in QArgs, b \in CArgs : add_conditional_z(c, b, q)
    \/ Room(1) /\ \E q \in QArgs, b \in CArgs : add_conditional_h(c, b, q)
    \/ Room(1) /\ \E q1, q2 \in QArgs, b \in CArgs :
                     add_conditional_cnot(c, b, q1, q2)
    \/ Room(1) /\ \E d \in DictPool : AddGate(c, d)
    \/ \E lst \in ExtendInputs : Room(Len(lst)) /\ Extend(c, lst)

Composes(c) ==
    \E other \in Circs \cup NonCircuits :
       AppendFits(c, other) /\ AppendCircuit(c, other)

Copies(c) ==
    \E src \in Circs \ {c} :
       Len(circ[src].gates) * 2 <= MaxObj /\ Copy(c, src)

Mutates(c) ==
    \E i \in 1..Len(circ[c].gates) :
       \E key \in OperandKeys \cap DOMAIN heap[circ[c].gates[i]] :
          \E v \in QArgs : MutateGate(c, i, key, v)

Next ==
    \E c \in Circs :
       Allocs(c) \/ Adds(c) \/ Composes(c) \/ Copies(c) \/ Mutates(c)

Spec == Init /\ [][Next]_vars

----------------------------------------------------------------------------
(* A driver that builds one circuit with the helpers, then schedules it. *)

SArgs == 0..(SMaxQubits - 1)
SCArgs == 0..(SMaxCBits - 1)

Building == ~sched.set
SRoom == Building /\ Len(circ["a"].gates) < SMaxLen

NextS ==
    \/ Building /\ circ["a"].n_qubits < SMaxQubits /\ request_qubit("a")
    \/ Building /\ circ["a"].n_classical_bits < SMaxCBits
                /\ request_classical_bit("a")
    \/ SRoom /\ \E q \in SArgs : add_h("a", q)
    \/ SRoom /\ \E q1, q2 \in SArgs : q1 # q2 /\ add_cnot("a", q1, q2)
    \/ SRoom /\ \E q1, q2, q3 \in SArgs :
                   q1 < q2 /\ q3 \notin {q1, q2} /\ add_toffoli("a", q1, q2, q3)
    \/ SRoom /\ \E q \in SArgs, b \in SCArgs : add_measure("a", q, b)
    \/ SRoom /\ \E q \in SArgs, b \in SCArgs : add_conditional_x("a", b, q)
    \/ SRoom /\ \E q1, q2 \in SArgs, b \in SCArgs :
                   q1 # q2 /\ add_conditional_cnot("a", b, q1, q2)
    \/ \E remove_overlap \in BOOLEAN : Schedule("a", remove_overlap)

SchedSpec == Init /\ [][NextS]_vars

----------------------------------------------------------------------------
(* A driver that allocates wires, adds operations and composes circuits,   *)
(* keeping what each allocation returned.                                  *)

ARoom == Len(heap) < AMaxGates

\* The outcome of c.append(other) is one the bounds can hold.
AAppendFits(c, other) ==
    /\ circ[c].n_qubits + circ[other].n_qubits <= AMaxQubits
    /\ circ[c].n_classical_bits + circ[other].n_classical_bits <= AMaxCBits
    /\ Len(heap) + Len(circ[other].gates) <= AMaxGates + 1
    /\ append(circ, heap, c, other).res = "MemoryError" => Diverges(c, other)

NextA ==
    \E c \in Circs :
       \/ circ[c].n_qubits < AMaxQubits /\ RequestQubit(c)
       \/ \E n \in 0..AMaxN :
             circ[c].n_qubits + n <= AMaxQubits /\ request_qubits(c, n)
       \/ circ[c].n_classical_bits < AMaxCBits /\ RequestClassicalBit(c)
       \/ \E n \in 0..AMaxN :
             /\ circ[c].n_classical_bits + n <= AMaxCBits
             /\ request_classical_bits(c, n)
       \/ ARoom /\ \E q \in QArgs : add_h(c, q)
       \/ ARoom /\ \E q \in QArgs, b \in CArgs : add_measure(c, q, b)
       \/ \E other \in Circs : AAppendFits(c, other) /\ AppendCircuit(c, other)

AllocSpec == Init /\ [][NextA]_vars

----------------------------------------------------------------------------
(* What the claims speak of. *)

\* A circuit as its user sees it: the counts and the operations by value.
View(c) == CircuitOf(circ, heap, c)

Other(c) == CHOOSE o \in Circs : o # c

QubitKeys == {"ctrl", "ctrl1", "ctrl2", "target", "qubit"}
ClassicalKeys == {"classical_bit"}

\* The fields the data model requires of each kind of operation.
RequiredKeys(type) ==
    CASE type \in {"CNOT", "CZ"} -> {"type", "ctrl", "target"}
      [] type = "Tof" -> {"type", "ctrl1", "ctrl2", "target"}
      [] type \in {"HAD", "X", "Z", "S", "T", "Tdg"} -> {"type", "target"}
      [] type = "MEASURE" -> {"type", "qubit", "classical_bit"}
      [] type = "CONDITIONAL" -> {"type", "classical_bit", "target", "gate"}
      [] OTHER -> {"type"}
WellFormed(d) ==
    "type" \in DOMAIN d /\ RequiredKeys(d.type) \subseteq DOMAIN d

\* new is old with every qubit field raised by qoff, every classical field
\* by coff, and everything else (the kind, the inner gate) as it was.
ShiftedBy(old, new, qoff, coff) ==
    /\ DOMAIN new = DOMAIN old
    /\ \A k \in DOMAIN old :
          new[k] = IF k \in QubitKeys THEN old[k] + qoff
                   ELSE IF k \in ClassicalKeys THEN old[k] + coff
                   ELSE old[k]

IsPrefix(s, t) == Len(s) <= Len(t) /\ \A i \in 1..Len(s) : t[i] = s[i]

\* Every operand of every operation of circuit c names a wire c has.
InRange(c) ==
    \A i \in 1..Len(circ[c].gates) :
       LET gate == heap[circ[c].gates[i]]
       IN /\ \A k \in QubitKeys \cap DOMAIN gate :
                0 <= gate[k] /\ gate[k] < circ[c].n_qubits
          /\ \A k \in ClassicalKeys \cap DOMAIN gate :
                0 <= gate[k] /\ gate[k] < circ[c].n_classical_bits

\* The schedule in `sched` is a map: schedule_gates returned.
Scheduled == sched.set /\ sched.err = ""

\* The wire set the scheduler used for operation i of the scheduled circuit.
DepsAt(i) == SchedDeps(View("a").gates[i], View("a").n_qubits, sched.remove_overlap)

\* The wires operation i of the scheduled circuit names, unwidened.
TouchedAt(i) == SchedDeps(View("a").gates[i], View("a").n_qubits, FALSE)

\* C1: for either value of the flag, every operation gets a level, and an
\* operation's level is strictly greater than the level of every earlier
\* operation whose (possibly widened) dependency wires share a wire with
\* its own; a Conditional reading classical bit c comes strictly after every
\* earlier Measure writing c; no two operations of one level share a
\* dependency wire.
C1_DependentsLater ==
    Scheduled =>
       LET gates == View("a").gates
           gate_loc == sched.gate_loc
       IN /\ Len(gate_loc) = Len(gates)
          /\ \A j \in 1..Len(gates) : \A i \in 1..(j - 1) :
                /\ DepsAt(i) \cap DepsAt(j) # {} => gate_loc[j] > gate_loc[i]
                /\ (/\ gates[i].type = "MEASURE"
                    /\ gates[j].type = "CONDITIONAL"
                    /\ gates[i].classical_bit = gates[j].classical_bit)
                      => gate_loc[j] > gate_loc[i]
                /\ gate_loc[i] = gate_loc[j] => DepsAt(i) \cap DepsAt(j) = {}

\* A Measure of one qubit into bit 0 and then a Conditional on bit 0 acting
\* on another qubit, scheduled without widening at levels 0 and 1.
C1_Witness ==
    /\ Scheduled /\ ~sched.remove_overlap
    /\ Len(View("a").gates) = 2
    /\ View("a").gates[1].type = "MEASURE"
    /\ View("a").gates[2].type = "CONDITIONAL"
    /\ View("a").gates[1].qubit # View("a").gates[2].target
    /\ sched.gate_loc = <<0, 1>>

\* C2: with overlap suppression on, every wire under an operation's drawn
\* span (for Measure and Conditional the line runs from the qubit wire to
\* the classical wire n_qubits + classical_bit) is in its dependency set,
\* so no other operation of the same level lies on a wire inside the span;
\* stated for circuits whose operands all name allocated wires.
C2_SpanIsDependency ==
    (Scheduled /\ sched.remove_overlap /\ InRange("a")) =>
       LET c == View("a")
       IN \A i \in 1..Len(c.gates) :
             /\ DrawnSpan(c.gates[i], c.n_qubits) \subseteq DepsAt(i)
             /\ \A j \in 1..Len(c.gates) \ {i} :
                   sched.gate_loc[j] = sched.gate_loc[i] =>
                      TouchedAt(j) \cap DrawnSpan(c.gates[i], c.n_qubits) = {}

----------------------------------------------------------------------------
\* C3: every qubit operand of every stored operation lies in [0, n_qubits)
\* and every classical-bit operand in [0, n_classical_bits): an operation
\* that refers to a wire outside the allocation is never stored.
C3_OperandsInRange == \A c \in Circs : InRange(c)

\* C4: a composition that returns sets n_qubits to
\* max(n_qubits, other.n_qubits + qubitOffset), adds other.n_classical_bits
\* to n_classical_bits, and stores after the receiver's operations one copy
\* of each operation of other, its qubit fields raised by qubitOffset, its
\* classical_bit by classicalOffset, kind and inner gate unchanged.
C4_AppendShifts ==
    [][\A c \in Circs, other \in Circs :
          (/\ last'.op = "append" /\ last'.self = c /\ last'.other = other
           /\ last'.res = "ok") =>
             LET qoff == circ[c].n_qubits
                 coff == circ[c].n_classical_bits
                 old  == Gates(circ, heap, other)
                 new  == View(c)'.gates
                 n0   == Len(circ[c].gates)
             IN /\ View(c)'.n_qubits =
                      Max({circ[c].n_qubits, circ[other].n_qubits + qoff})
                /\ View(c)'.n_classical_bits =
                      circ[c].n_classical_bits + circ[other].n_classical_bits
                /\ Len(new) = n0 + Len(old)
                /\ \A k \in 1..Len(old) :
                      ShiftedBy(old[k], new[n0 + k], qoff, coff)]_vars

\* A circuit holds, after its own operations, a Measure that an append of
\* the other circuit moved from qubit 0 to qubit 1.
C4_Witness ==
    \E c \in Circs :
       /\ last.op = "append" /\ last.res = "ok"
       /\ last.self = c /\ last.other # c
       /\ circ[c].n_qubits = 2
       /\ Len(circ[c].gates) >= 2
       /\ LET gate == heap[circ[c].gates[Len(circ[c].gates)]]
          IN gate.type = "MEASURE" /\ gate.qubit = 1

\* C5: add_gate raises, and leaves the circuit as it was, whenever the
\* dictionary lacks a field its kind requires.
C5_AddGateRejectsIncomplete ==
    [][\A c \in Circs :
          (/\ last'.op = "add_gate" /\ last'.self = c
           /\ ~WellFormed(last'.arg)) =>
             /\ last'.res # "ok"
             /\ View(c)' = View(c)]_vars

\* C6: a call of add_gate, extend or append that raises leaves the
\* receiver's counts and operation list exactly as they were.
C6_NoPartialSuccess ==
    [][\A c \in Circs :
          (/\ last'.res # "ok"
           /\ last'.op \in {"add_gate", "extend", "append"}
           /\ last'.self = c) =>
             View(c)' = View(c)]_vars

\* C7: append with an argument that is no QuantumCircuit raises TypeError
\* and leaves the receiver's counts and operations as they were.
C7_AppendTypeMismatch ==
    [][\A c \in Circs, x \in NonCircuits :
          (last'.op = "append" /\ last'.self = c /\ last'.other = x) =>
             /\ last'.res = "TypeError"
             /\ View(c)' = View(c)]_vars

\* append was called on a circuit holding wires and operations with an
\* argument that is no circuit.
C7_Witness ==
    /\ last.op = "append" /\ last.other \in NonCircuits
    /\ circ[last.self].n_qubits > 0
    /\ circ[last.self].gates # <<>>

\* The caller changes circuit c: its wire counts, its operation list, or an
\* item of one of its operations.
WritesTo(c) ==
    \/ Allocs(c)
    \/ last'.op = "add_gate" /\ last'.self = c
    \/ Mutates(c)

\* No dictionary is held by two circuits or twice by one.
NoSharing ==
    LET all == circ["a"].gates \o circ["b"].gates
    IN \A i, j \in 1..Len(all) : all[i] = all[j] => i = j

\* C8: stored operations are never aliased.  No dictionary is held by two
\* circuits or twice by one; a change the caller makes to one circuit (its
\* counts, its list, an item of one of its operations) leaves the other
\* circuit as it was; and the operation add_gate stores keeps the items it
\* was given when the caller afterwards overwrites its own dictionary.
C8_NeverAliased ==
    [][/\ NoSharing'
       /\ \A c \in Circs :
             \/ View(Other(c))' = View(Other(c))
             \/ ~WritesTo(c)
       /\ \A c \in Circs :
             (last'.op = "add_gate" /\ last'.self = c /\ last'.res = "ok") =>
                View(c)'.gates = Append(Gates(circ, heap, c), last'.arg)]_vars

\* Both circuits hold the same kind of operation, on different targets: one
\* is a copy of the other that was written to afterwards.
C8_Witness ==
    /\ Len(circ["a"].gates) = 1 /\ Len(circ["b"].gates) = 1
    /\ circ["a"].n_qubits = circ["b"].n_qubits
    /\ DOMAIN heap[1] = {"type", "target"}
    /\ heap[circ["a"].gates[1]] = [heap[circ["b"].gates[1]] EXCEPT !.target = 1]
    /\ heap[circ["b"].gates[1]].target = 0

\* C9: append(other) returns having appended exactly as many operations as
\* other held when the call began, for every QuantumCircuit other none of
\* whose operations lacks a key, the receiver itself included.
C9_AppendTerminates ==
    [][\A c \in Circs, other \in Circs :
          (/\ last'.op = "append" /\ last'.self = c /\ last'.other = other
           /\ \A i \in 1..Len(circ[other].gates) :
                 ~AdjustRaises(heap[circ[other].gates[i]])) =>
             /\ last'.res = "ok"
             /\ Len(View(c)'.gates) =
                   Len(circ[c].gates) + Len(circ[other].gates)]_vars

\* What a call leaves of the receiver's list, and what append adds to it.
KeepsPrefix(c) == IsPrefix(Gates(circ, heap, c), View(c)'.gates)

CopiesInOrder(c, other) ==
    LET n0 == Len(circ[c].gates)
        new == View(c)'.gates
        src == View(other)'.gates
    IN \A k \in 1..(Len(new) - n0) :
          ShiftedBy(src[k], new[n0 + k],
                    circ[c].n_qubits, circ[c].n_classical_bits)

----------------------------------------------------------------------------
\* The counts of circuit c never decrease in a step.
CountsMonotone(c) ==
    /\ View(c)'.n_qubits >= View(c).n_qubits
    /\ View(c)'.n_classical_bits >= View(c).n_classical_bits

\* The n consecutive indices from `from` on.
Consecutive(from, n) == [i \in 1..n |-> from + i - 1]

\* An allocation on c returns the indices from the previous count on, and
\* raises the count by their number.
AllocReturns(c) ==
    /\ (last'.self = c /\ last'.op \in {"request_qubit", "request_qubits"}) =>
          /\ last'.arg.ret = Consecutive(View(c).n_qubits, last'.arg.n)
          /\ View(c)'.n_qubits = View(c).n_qubits + last'.arg.n
    /\ (/\ last'.self = c
        /\ last'.op \in {"request_classical_bit", "request_classical_bits"}) =>
          /\ last'.arg.ret = Consecutive(View(c).n_classical_bits, last'.arg.n)
          /\ View(c)'.n_classical_bits =
                View(c).n_classical_bits + last'.arg.n

\* The operations an append stores in c use wires below c's counts, the
\* indices every later allocation starts from.
ComposedInRange(c) ==
    (last'.op = "append" /\ last'.self = c /\ last'.res = "ok") =>
       \A k \in (Len(View(c).gates) + 1)..Len(View(c)'.gates) :
          LET gate == View(c)'.gates[k]
          IN /\ \A key \in QubitKeys \cap DOMAIN gate :
                   gate[key] < View(c)'.n_qubits
             /\ \A key \in ClassicalKeys \cap DOMAIN gate :
                   gate[key] < View(c)'.n_classical_bits

\* C11: over allocations, adds and appends the counts never decrease; every
\* allocation returns the previous count (request_qubits(n) the n indices
\* from it on) and raises the count by as many, so that no index is returned
\* twice; and the operations a composition stores lie below the counts, so
\* that no index allocated afterwards is a wire they use.
C11_AllocationIndices ==
    [][\A c \in Circs :
          CountsMonotone(c) /\ AllocReturns(c) /\ ComposedInRange(c)]_vars

\* The first two parts of C11 alone.
CountsAndReturns ==
    [][\A c \in Circs : CountsMonotone(c) /\ AllocReturns(c)]_vars

----------------------------------------------------------------------------
\* The dependency wires of a well-formed operation, by the per-kind table.
TableDeps(gate) ==
    CASE gate.type \in {"CNOT", "CZ"} -> {gate.ctrl, gate.target}
      [] gate.type = "Tof" -> {gate.ctrl1, gate.ctrl2, gate.target}
      [] gate.type = "MEASURE" -> {gate.qubit}
      [] gate.type = "CONDITIONAL" ->
            {gate.target} \cup (IF "ctrl" \in DOMAIN gate THEN {gate.ctrl} ELSE {})
      [] OTHER -> {gate.target}

\* C12: for every well-formed operation deps_of returns exactly the set of
\* the per-kind table ({ctrl, target} for CNOT and CZ, {ctrl1, ctrl2, target}
\* for Toffoli, {target} for the 1-qubit gates, {qubit} for Measure, {target}
\* and ctrl when present for Conditional), and the scheduler's set is that
\* set with n_qubits + classical_bit added for Measure and Conditional.
C12_DepsOfTable ==
    \A i \in 1..Len(View("a").gates) :
       LET gate == View("a").gates[i]
           n_qubits == View("a").n_qubits
       IN WellFormed(gate) =>
             /\ deps_of(gate) = TableDeps(gate)
             /\ SchedDeps(gate, n_qubits, FALSE) =
                   TableDeps(gate) \cup
                      (IF gate.type \in {"MEASURE", "CONDITIONAL"}
                       THEN {n_qubits + gate.classical_bit} ELSE {})

\* C12 without the conditional-CNOT: the table for every other kind.
DepsOfTable_NoConditionalCtrl ==
    \A i \in 1..Len(View("a").gates) :
       LET gate == View("a").gates[i]
       IN (/\ WellFormed(gate)
           /\ ~(gate.type = "CONDITIONAL" /\ "ctrl" \in DOMAIN gate))
             => deps_of(gate) = TableDeps(gate)

----------------------------------------------------------------------------
\* The qubit wires an operation names, and all the wires it names.
QubitOperands(gate) == {gate[k] : k \in QubitKeys \cap DOMAIN gate}
OperandWires(gate, n_qubits) ==
    QubitOperands(gate) \cup
       {n_qubits + gate[k] : k \in ClassicalKeys \cap DOMAIN gate}

\* Operation j is on a qubit wire strictly inside the qubit span of the
\* multi-qubit operation i.
StrictlyInside(j, i) ==
    LET span == QubitOperands(View("a").gates[i])
    IN /\ Cardinality(span) >= 2
       /\ \E w \in QubitOperands(View("a").gates[j]) :
             Min(span) < w /\ w < Max(span)

\* CNOT(ctrl = 0, target = 3) followed by Hadamard(2), on four qubits.
ToggleExample ==
    [n_qubits |-> 4, n_classical_bits |-> 0,
     gates |-> <<[type |-> "CNOT", ctrl |-> 0, target |-> 3],
                 [type |-> "HAD", target |-> 2]>>]

NoConditionalCtrl(gate) == ~(gate.type = "CONDITIONAL" /\ "ctrl" \in DOMAIN gate)

\* The toggle's effects on the scheduled circuit: for all its operations,
\* or for all but the conditional CNOT.
ToggleEffects(all) ==
    LET gates == View("a").gates
        n_qubits == View("a").n_qubits
        Counts(gate) == all \/ NoConditionalCtrl(gate)
    IN /\ schedule_gates(ToggleExample, TRUE).gate_loc = <<0, 1>>
       /\ schedule_gates(ToggleExample, FALSE).gate_loc = <<0, 0>>
       /\ (Scheduled /\ InRange("a") /\ sched.remove_overlap) =>
             \A j \in 1..Len(gates) : \A i \in 1..(j - 1) :
                (Counts(gates[i]) /\ StrictlyInside(j, i)) =>
                   sched.gate_loc[j] > sched.gate_loc[i]
       /\ (Scheduled /\ InRange("a") /\ ~sched.remove_overlap) =>
             \A j \in 1..Len(gates) :
                /\ Counts(gates[j]) =>
                      DepsAt(j) = OperandWires(gates[j], n_qubits)
                /\ (\A i \in 1..(j - 1) :
                       OperandWires(gates[i], n_qubits)
                          \cap OperandWires(gates[j], n_qubits) = {})
                      => sched.gate_loc[j] = 0

\* C13: overlap suppression is a toggle.  On: an operation on a qubit wire
\* strictly inside the [min, max] qubit span of an earlier multi-qubit
\* operation gets a greater level than it, sharing an operand or not
\* (CNOT(0, 3) then Hadamard(2): level 1).  Off: the dependency set is the
\* operation's operand wires, and an operation that shares no operand wire
\* with an earlier one gets level 0 (the same Hadamard: level 0).  Stated for
\* circuits whose operands all name allocated wires.
C13_OverlapToggle == ToggleEffects(TRUE)

\* C13 for every operation but the conditional CNOT.
OverlapToggle_NoConditionalCtrl == ToggleEffects(FALSE)

----------------------------------------------------------------------------
\* The earlier operations of the scheduled circuit whose wire set meets
\* that of operation j.
EarlierOn(j) == {i \in 1..(j - 1) : DepsAt(i) \cap DepsAt(j) # {}}

\* Every operation of the scheduled circuit is a 1-qubit gate.
OneQubitGates ==
    \A i \in 1..Len(View("a").gates) :
       View("a").gates[i].type \in {"HAD", "X", "Z", "S", "T", "Tdg"}

\* C14: for a circuit whose operands all name allocated wires
\* schedule_gates returns a map with one entry per operation (none for no
\* operations, whatever the wire counts); each level is the non-negative
\* 1 + max of the levels last written on its dependency wires, -1 where
\* nothing was written: one more than the greatest level among the earlier
\* operations on one of its wires, 0 without any; so k gates on one qubit get
\* 0, ..., k - 1, 1-qubit gates on distinct qubits all get 0, and a second
\* call with the same flag returns the same map.
C14_ScheduleMap ==
    (sched.set /\ InRange("a")) =>
       LET gates == View("a").gates
           gate_loc == sched.gate_loc
       IN /\ sched.err = ""
          /\ DOMAIN gate_loc = 1..Len(gates)
          /\ \A j \in 1..Len(gates) :
                /\ gate_loc[j] \in Nat
                /\ gate_loc[j] =
                      1 + Max({gate_loc[i] : i \in EarlierOn(j)} \cup {-1})
          /\ OneQubitGates =>
                /\ (\A i, j \in 1..Len(gates) : gates[i].target = gates[j].target)
                      => gate_loc = [j \in 1..Len(gates) |-> j - 1]
                /\ (\A i, j \in 1..Len(gates) :
                       gates[i].target = gates[j].target => i = j)
                      => gate_loc = [j \in 1..Len(gates) |-> 0]
          /\ schedule_gates(View("a"), sched.remove_overlap) =
                [err |-> sched.err, gate_loc |-> sched.gate_loc]

\* Three Hadamards on one qubit, scheduled at levels 0, 1 and 2.
C14_Witness ==
    /\ Scheduled /\ InRange("a") /\ OneQubitGates
    /\ Len(View("a").gates) = 3
    /\ \A i \in 1..3 : View("a").gates[i].target = 1
    /\ sched.gate_loc = <<0, 1, 2>>

\* C15: the schedule is compact.  Every operation with level L > 0 has an
\* earlier operation with level exactly L - 1 whose (possibly widened)
\* dependency set shares a wire with its own; the levels used are exactly
\* 0..max; and the level of operation k (counted from 0) is at most k.
C15_Compact ==
    Scheduled =>
       LET gate_loc == sched.gate_loc
           n == Len(gate_loc)
       IN /\ \A j \in 1..n :
                /\ gate_loc[j] > 0 =>
                      \E i \in EarlierOn(j) : gate_loc[i] = gate_loc[j] - 1
                /\ gate_loc[j] <= j - 1
          /\ n > 0 => {gate_loc[j] : j \in 1..n} =
                         0..Max({gate_loc[j] : j \in 1..n})

\* With overlap suppression on, a Hadamard between the wires of an earlier
\* CNOT, pushed to level 1 by the widened set alone, and a third operation
\* at level 2.
C15_Witness ==
    /\ Scheduled /\ sched.remove_overlap
    /\ Len(View("a").gates) = 3
    /\ View("a").gates[1].type = "CNOT"
    /\ View("a").gates[2].type = "HAD"
    /\ TouchedAt(1) \cap TouchedAt(2) = {}
    /\ sched.gate_loc = <<0, 1, 2>>
====
